---- MODULE Spec2Model ----
(***************************************************************************)
(* Model of kingcy.py: a Discord economy bot that keeps every account in   *)
(* one JSON file (users.json).  Each command is a coroutine that suspends  *)
(* at every load_data / save_data; the file reads and writes run in worker *)
(* threads (asyncio.to_thread), so commands interleave at those points.    *)
(***************************************************************************)
EXTENDS Integers, Sequences, FiniteSets, TLC

\* ------------------------------------------------------------------ bounds
MaxCmds == 2            \* commands invoked in one behaviour
MaxTicks == 2           \* clock advances (of TickStep each) in one behaviour

\* ------------------------------------------------------- program constants
INITIAL_BALANCE == 500
DAILY_REWARD == 200
CHECKLIST_REWARD == 150
COOLDOWN_DAILY == 24
COOLDOWN_CHECKLIST == 24
SecondsPerHour == 3600
SecondsPerMinute == 60
DealerStand == 17
BlackjackTarget == 21
TripleMultiplier == 10
DoubleMultiplier == 2

\* ------------------------------------------------------------ input sets
Users == {"u1", "u2"}
Tasks == {1, 2}
TickStep == 12 * SecondsPerHour
\* the amount argument as typed by the user: absent, not an integer, or an int
NoAmount == [given |-> FALSE, int |-> FALSE, v |-> 0]
BadAmount == [given |-> TRUE, int |-> FALSE, v |-> 0]
IntAmount(n) == [given |-> TRUE, int |-> TRUE, v |-> n]
BetValues == {0, 500}
RawAmounts == {NoAmount, BadAmount} \cup {IntAmount(n) : n \in BetValues}
RawChoices == {"none", "heads", "Tails", "edge"}
Sides == {"heads", "tails"}
emojis == {"cherry", "bell", "gem", "bag", "crown"}

Max(a, b) == IF a >= b THEN a ELSE b

\* ------------------------------------------------------------ timestamps
\* "0" is the never-claimed sentinel; datetime.isoformat() of an aware UTC
\* time parses back (fromisoformat) to the same instant.
Sentinel == [kind |-> "zero", secs |-> 0]
IsoFormat(t) == [kind |-> "aware", secs |-> t]
NoMessage == [wait |-> FALSE, hours |-> 0, minutes |-> 0, seconds |-> 0]

\* mutant: a wait is still reported at the instant the cooldown ends
get_cooldown_message_ge(last_claimed_timestamp, cooldown_hours, now_utc) ==
    IF last_claimed_timestamp.kind # "aware"
    THEN NoMessage
    ELSE LET next_claim == last_claimed_timestamp.secs
                              + cooldown_hours * SecondsPerHour
             total_seconds == next_claim - now_utc
             remainder == total_seconds % SecondsPerHour
         IN  IF next_claim >= now_utc
             THEN [wait |-> TRUE,
                   hours |-> total_seconds \div SecondsPerHour,
                   minutes |-> remainder \div SecondsPerMinute,
                   seconds |-> remainder % SecondsPerMinute]
             ELSE NoMessage

get_cooldown_message(last_claimed_timestamp, cooldown_hours, now_utc) ==
    IF last_claimed_timestamp.kind # "aware"
    THEN NoMessage      \* fromisoformat / comparison raised: bare except
    ELSE LET next_claim == last_claimed_timestamp.secs
                              + cooldown_hours * SecondsPerHour
             total_seconds == next_claim - now_utc
             remainder == total_seconds % SecondsPerHour
         IN  IF next_claim > now_utc
             THEN [wait |-> TRUE,
                   hours |-> total_seconds \div SecondsPerHour,
                   minutes |-> remainder \div SecondsPerMinute,
                   seconds |-> remainder % SecondsPerMinute]
             ELSE NoMessage

\* --------------------------------------------------------------- accounts
DefaultAccount ==
    [balance |-> INITIAL_BALANCE,
     daily_last_claimed |-> Sentinel,
     checklist_last_claimed |-> Sentinel,
     wins_flip |-> 0, losses_flip |-> 0,
     wins_slot |-> 0, losses_slot |-> 0,
     wins_bj |-> 0, losses_bj |-> 0,
     total_gambled |-> 0]

EmptyStore == [u \in {} |-> DefaultAccount]
Put(d, u, rec) == [v \in (DOMAIN d) \cup {u} |-> IF v = u THEN rec ELSE d[v]]

\* ------------------------------------------------------------- check_bet
CheckBet(amt, balance) ==
    IF ~amt.given \/ ~amt.int THEN "bet_invalid"
    ELSE IF amt.v <= 0 THEN "bet_nonpositive"
    ELSE IF balance < amt.v THEN "bet_insufficient"
    ELSE "ok"

\* ------------------------------------------------------------- coin flip
Lower(choice) == IF choice = "Tails" THEN "tails" ELSE choice

\* mutant: a win credits the whole 2x return instead of the 1x profit
FlipSettlePaysReturn(user_data, choice, result, amt) ==
    LET gambled == [user_data EXCEPT !.total_gambled = @ + amt]
    IN  IF choice = result
        THEN [gambled EXCEPT !.balance = @ + 2 * amt, !.wins_flip = @ + 1]
        ELSE [gambled EXCEPT !.balance = @ + (-amt), !.losses_flip = @ + 1]

FlipSettle(user_data, choice, result, amt) ==
    LET gambled == [user_data EXCEPT !.total_gambled = @ + amt]
    IN  IF choice = result
        THEN [gambled EXCEPT !.balance = @ + amt, !.wins_flip = @ + 1]
        ELSE [gambled EXCEPT !.balance = @ + (-amt), !.losses_flip = @ + 1]

\* ---------------------------------------------------------- slot machine
\* mutant: the pairing of the first and third reel is forgotten
SlotClassAdjacentOnly(s1, s2, s3) ==
    IF s1 = s2 /\ s2 = s3 THEN "triple"
    ELSE IF s1 = s2 \/ s2 = s3 THEN "double"
    ELSE "loss"

SlotClass(s1, s2, s3) ==
    IF s1 = s2 /\ s2 = s3 THEN "triple"
    ELSE IF s1 = s2 \/ s2 = s3 \/ s1 = s3 THEN "double"
    ELSE "loss"

SlotNet(class, amt) ==
    IF class = "triple" THEN amt * (TripleMultiplier - 1)
    ELSE IF class = "double" THEN amt * (DoubleMultiplier - 1)
    ELSE -amt

SlotSettle(user_data, s1, s2, s3, amt) ==
    LET class == SlotClass(s1, s2, s3)
        gambled == [user_data EXCEPT !.total_gambled = @ + amt]
    IN  IF class = "loss"
        THEN [gambled EXCEPT !.balance = @ - amt, !.losses_slot = @ + 1]
        ELSE [gambled EXCEPT !.balance = @ + SlotNet(class, amt),
                             !.wins_slot = @ + 1]

\* ------------------------------------------------------------- blackjack
\* A card is the string f"{rank}{suit}", modelled as the sequence of its code
\* points.  Each entry of CARD_SUITS is a string of six code points in this
\* file (a suit symbol followed by a variation selector, two code points, in
\* any decoding of the same bytes): never a single character.
Ranks == <<"2", "3", "4", "5", "6", "7", "8", "9", "10", "J", "Q", "K", "A">>
CARD_SUITS ==
    << <<"U+201A", "U+00F4", "U+2020", "U+00D4", "U+0142", "U+0179">>,
       <<"U+201A", "U+00F4", "U+2022", "U+00D4", "U+0142", "U+0179">>,
       <<"U+201A", "U+00F4", "U+00A3", "U+00D4", "U+0142", "U+0179">>,
       <<"U+201A", "U+00F4", "U+00B6", "U+00D4", "U+0142", "U+0179">> >>
CARD_VALUES ==
    [r \in {Ranks[i] : i \in 1..Len(Ranks)} |->
        CASE r = "A" -> 11
          [] r \in {"10", "J", "Q", "K"} -> 10
          [] OTHER -> (CHOOSE i \in 1..8 : Ranks[i] = r) + 1]
\* the code points of a rank string
RankChars ==
    [r \in DOMAIN CARD_VALUES |-> IF r = "10" THEN <<"1", "0">> ELSE <<r>>]
Card(rank, suit) == RankChars[rank] \o suit

\* the deck as the two loops build it, before random.shuffle
OrderedDeck ==
    [i \in 1..(Len(Ranks) * Len(CARD_SUITS)) |->
        Card(Ranks[((i - 1) \div Len(CARD_SUITS)) + 1],
             CARD_SUITS[((i - 1) % Len(CARD_SUITS)) + 1])]

Reverse(s) == [i \in 1..Len(s) |-> s[Len(s) + 1 - i]]
InSeq(x, s) == \E i \in 1..Len(s) : s[i] = x
RECURSIVE Without(_, _)
Without(s, top) ==
    IF Len(s) = 0 THEN <<>>
    ELSE IF InSeq(Head(s), top) THEN Without(Tail(s), top)
    ELSE <<Head(s)>> \o Without(Tail(s), top)

\* one outcome of random.shuffle: the permutation whose successive
\* deck.pop() calls (from the end of the list) return top[1], top[2], ...
create_deck(top) == Without(OrderedDeck, top) \o Reverse(top)

\* card[:-1]: the string without its last code point
DropLast(card) == SubSeq(card, 1, Len(card) - 1)
\* CARD_VALUES[key]: the keys are the rank strings; any other key raises
HasValue(key) == \E r \in DOMAIN CARD_VALUES : RankChars[r] = key
ValueOf(key) ==
    CARD_VALUES[CHOOSE r \in DOMAIN CARD_VALUES : RankChars[r] = key]
IsAce(card) == DropLast(card) = RankChars["A"]

RECURSIVE SumNonAces(_)
SumNonAces(hand) ==
    IF Len(hand) = 0 THEN 0
    ELSE (IF ~IsAce(Head(hand)) THEN ValueOf(DropLast(Head(hand))) ELSE 0)
         + SumNonAces(Tail(hand))
RECURSIVE CountAces(_)
CountAces(hand) ==
    IF Len(hand) = 0 THEN 0
    ELSE (IF IsAce(Head(hand)) THEN 1 ELSE 0) + CountAces(Tail(hand))
RECURSIVE AdjustAces(_, _)
AdjustAces(value, num_aces) ==
    IF value > BlackjackTarget /\ num_aces > 0
    THEN AdjustAces(value - 10, num_aces - 1)
    ELSE value

\* what a call returns: a value, or the exception it raised
Returned(v) == [raised |-> "none", value |-> v]
Raised(e) == [raised |-> e, value |-> 0]

calculate_hand_value(hand) ==
    IF \E i \in 1..Len(hand) : ~IsAce(hand[i]) /\ ~HasValue(DropLast(hand[i]))
    THEN Raised("KeyError")
    ELSE Returned(AdjustAces(SumNonAces(hand)
                                + CountAces(hand) * CARD_VALUES["A"],
                             CountAces(hand)))

Pop(deck) == [card |-> deck[Len(deck)], deck |-> SubSeq(deck, 1, Len(deck) - 1)]

\* while dealer_score < 17: dealer_hand.append(deck.pop())
RECURSIVE DealerTurn(_, _)
DealerTurn(dealer_hand, deck) ==
    LET dealer_score == calculate_hand_value(dealer_hand)
    IN  IF dealer_score.raised # "none"
        THEN [hand |-> dealer_hand, deck |-> deck,
              raised |-> dealer_score.raised]
        ELSE IF dealer_score.value >= DealerStand
        THEN [hand |-> dealer_hand, deck |-> deck, raised |-> "none"]
        ELSE IF Len(deck) = 0
        THEN [hand |-> dealer_hand, deck |-> deck, raised |-> "IndexError"]
        ELSE DealerTurn(Append(dealer_hand, Pop(deck).card), Pop(deck).deck)

\* int(amount * 1.5) for a non-negative int amount
NaturalBonus(amt) == (amt * 3) \div 2

\* the locals of blackjack when the round is over (or has raised)
Round(player_hand, dealer_hand, player_score, dealer_score, result, winnings) ==
    [raised |-> "none", player_hand |-> player_hand,
     dealer_hand |-> dealer_hand, player_score |-> player_score,
     dealer_score |-> dealer_score, result |-> result, winnings |-> winnings]
RoundRaised(player_hand, dealer_hand, e) ==
    [Round(player_hand, dealer_hand, 0, 0, e, 0) EXCEPT !.raised = e]

\* lines 402-458: deal two cards each, score, dealer turn, winnings
BlackjackRound(deck, amt) ==
    LET p1 == Pop(deck)
        p2 == Pop(p1.deck)
        d1 == Pop(p2.deck)
        d2 == Pop(d1.deck)
        player_hand == <<p1.card, p2.card>>
        dealer_hand == <<d1.card, d2.card>>
        player == calculate_hand_value(player_hand)
        dealer_first == calculate_hand_value(dealer_hand)
        turn == DealerTurn(dealer_hand, d2.deck)
        dealer_final == calculate_hand_value(turn.hand).value
    IN  IF player.raised # "none"
        THEN RoundRaised(player_hand, dealer_hand, player.raised)
        ELSE IF player.value = BlackjackTarget
        THEN IF dealer_first.raised # "none"
             THEN RoundRaised(player_hand, dealer_hand, dealer_first.raised)
             ELSE IF dealer_first.value = BlackjackTarget
             THEN Round(player_hand, dealer_hand, player.value,
                        dealer_first.value, "push", amt)
             ELSE Round(player_hand, dealer_hand, player.value,
                        dealer_first.value, "natural", amt + NaturalBonus(amt))
        ELSE IF player.value > BlackjackTarget
        THEN IF dealer_first.raised # "none"
             THEN RoundRaised(player_hand, dealer_hand, dealer_first.raised)
             ELSE Round(player_hand, dealer_hand, player.value,
                        dealer_first.value, "player_bust", 0)
        ELSE IF turn.raised # "none"
        THEN RoundRaised(player_hand, turn.hand, turn.raised)
        ELSE IF dealer_final > BlackjackTarget
        THEN Round(player_hand, turn.hand, player.value, dealer_final,
                   "dealer_bust", amt * 2)
        ELSE IF player.value > dealer_final
        THEN Round(player_hand, turn.hand, player.value, dealer_final,
                   "player_wins", amt * 2)
        ELSE IF player.value < dealer_final
        THEN Round(player_hand, turn.hand, player.value, dealer_final,
                   "dealer_wins", 0)
        ELSE Round(player_hand, turn.hand, player.value, dealer_final,
                   "push", amt)

\* lines 461-468: credit the winnings and count the round
BlackjackSettle(user_data, winnings, amt) ==
    LET final_win_loss == winnings - amt
        paid == [user_data EXCEPT !.balance = @ + winnings,
                                  !.total_gambled = @ + amt]
    IN  IF final_win_loss > 0 THEN [paid EXCEPT !.wins_bj = @ + 1]
        ELSE IF final_win_loss < 0 THEN [paid EXCEPT !.losses_bj = @ + 1]
        ELSE paid

\* the shuffles the commands deal from: the ranks popped first, in pop order
\* (player, player, dealer, dealer, dealer draws ...); the card in position
\* i takes suit i, so no card is named twice
DealtFirst ==
    { <<"A", "K", "9", "7">>, <<"A", "K", "A", "Q">>,
      <<"10", "9", "10", "6">>, <<"10", "9", "10", "8">>,
      <<"10", "5", "10", "9">>, <<"10", "8", "9", "9">> }
Deal(ranks) == [i \in 1..Len(ranks) |-> Card(ranks[i], CARD_SUITS[i])]
Shuffles == {create_deck(Deal(ranks)) : ranks \in DealtFirst}

\* ------------------------------------------------------------------ state
VARIABLES
    now,        \* the UTC clock, in seconds
    fileState,  \* users.json: "missing", "empty" (truncated by open(.., 'w')),
                \* "valid" (one complete JSON document) or "garbage"
    persisted,  \* the mapping most recently written completely; it is what
                \* the file holds exactly when fileState = "valid"
    buckets,    \* commands.cooldown buckets: command -> user -> bucket
    task,       \* the command coroutine each task is running, with its locals
    sent,       \* what the step just taken sent to the channel, if anything
    started,    \* number of commands invoked so far
    settled,    \* history: per user, the sum of the balance changes that
                \* commands handed to a save_data which wrote them (a
                \* reward, a settled wager, blackjack's deduction)
    call        \* a function examined on its own: its name, its arguments
                \* and, once it has run, what it returned

vars ==
    <<now, fileState, persisted, buckets, task, sent, started, settled, call>>

TimedCommands == {"daily", "checklist"}
WagerCommands == {"flip", "slot", "blackjack"}
Reward(c) == IF c = "daily" THEN DAILY_REWARD ELSE CHECKLIST_REWARD
Cooldown(c) == IF c = "daily" THEN COOLDOWN_DAILY ELSE COOLDOWN_CHECKLIST
StampField(c) ==
    IF c = "daily" THEN "daily_last_claimed" ELSE "checklist_last_claimed"
Stamp(rec, c) == rec[StampField(c)]

\* the end of a command: who ran what, and what was sent to the channel.
\* Kind "suppressed": the error handler swallowed the exception and nothing
\* was sent; kinds "KeyError" and "BadArgument": the exception went to the
\* framework's default handler, which only prints it.
Reply(u, c, kind, n) == [user |-> u, cmd |-> c, kind |-> kind, n |-> n]
NoReply == Reply("none", "none", "none", 0)
Idle ==
    [pc |-> "idle", cmd |-> "none", user |-> "none", amount |-> 0,
     choice |-> "none", data |-> EmptyStore, edata |-> EmptyStore,
     cont |-> "none", net |-> 0, reply |-> NoReply]
Begin(c, u, at) == [Idle EXCEPT !.pc = at, !.cmd = c, !.user = u]

FreshBucket == [tokens |-> 1, window |-> 0]

\* the stores the bot may find when it starts: no file yet, or the file a
\* previous run left with one untouched account in it
InitialStores == {EmptyStore, [u \in {"u1"} |-> DefaultAccount]}

\* no function is being examined
NoCall == [fn |-> "none"]

\* the bot has just started and no command has been invoked
Boot ==
    /\ now = 0
    /\ fileState = IF persisted = EmptyStore THEN "missing" ELSE "valid"
    /\ buckets = [c \in TimedCommands |-> [u \in Users |-> FreshBucket]]
    /\ task = [t \in Tasks |-> Idle]
    /\ sent = NoReply
    /\ started = 0
    /\ settled = [u \in Users |-> 0]

Init ==
    /\ persisted \in InitialStores
    /\ call = NoCall
    /\ Boot

\* load_data: {} when the file is missing, empty or not one JSON document
load_data == IF fileState = "valid" THEN persisted ELSE EmptyStore

\* @commands.cooldown(1, per, BucketType.user): Cooldown.update_rate_limit,
\* run by the framework before the command body; retry_after # 0 raises
\* CommandOnCooldown
update_rate_limit(b, current, per) ==
    LET tokens0 == IF current > b.window + per THEN 1 ELSE Max(b.tokens, 0)
        window1 == IF tokens0 = 1 THEN current ELSE b.window
        tokens1 == tokens0 - 1
    IN  [bucket |-> [tokens |-> tokens1, window |-> window1],
         retry_after |-> IF tokens1 < 0 THEN per - (current - window1) ELSE 0]

\* the claim branch of daily / checklist (lines 161-163, 202-203)
Claim(user_data, c, now_utc) ==
    IF c = "daily"
    THEN [user_data EXCEPT !.balance = @ + DAILY_REWARD,
                           !.daily_last_claimed = IsoFormat(now_utc)]
    ELSE [user_data EXCEPT !.balance = @ + CHECKLIST_REWARD,
                           !.checklist_last_claimed = IsoFormat(now_utc)]

\* daily / checklist from `user_data = data[user_id]` to save_data or return
TimedDecide(t) ==
    LET me == task[t]
        msg == get_cooldown_message(Stamp(me.data[me.user], me.cmd),
                                    Cooldown(me.cmd), now)
    IN  IF me.user \notin DOMAIN me.data
           \/ StampField(me.cmd) \notin DOMAIN me.data[me.user]
        THEN /\ task' = [task EXCEPT ![t] = Idle]
             /\ sent' = Reply(me.user, me.cmd, "KeyError", 0)
             /\ UNCHANGED buckets
        ELSE IF msg.wait
        THEN /\ buckets' = [buckets EXCEPT ![me.cmd][me.user] =
                               [@ EXCEPT !.tokens = 1]]
             /\ task' = [task EXCEPT ![t] = Idle]
             /\ sent' = Reply(me.user, me.cmd, "cooldown",
                              msg.hours * SecondsPerHour
                                + msg.minutes * SecondsPerMinute
                                + msg.seconds)
        ELSE /\ task' = [task EXCEPT ![t] =
                    [me EXCEPT !.pc = "save_open", !.cont = "final",
                               !.edata = EmptyStore,
                               !.data = Put(me.data, me.user,
                                            Claim(me.data[me.user], me.cmd, now)),
                               !.net = Reward(me.cmd),
                               !.reply = Reply(me.user, me.cmd, "claimed",
                                               Reward(me.cmd))]]
             /\ sent' = NoReply
             /\ UNCHANGED buckets

\* the caller's code that follows `await ensure_user_data(user_id)`, up to its
\* next await; d is ensure_user_data's own mapping, d[user] what it returns
AfterEnsure(t, d) ==
    LET me == task[t]
        user_data == d[me.user]
        verdict == CheckBet(IntAmount(me.amount), user_data.balance)
    IN  IF me.cmd = "balance"
        THEN /\ task' = [task EXCEPT ![t] = Idle]
             /\ sent' = Reply(me.user, me.cmd, "balance", user_data.balance)
             /\ UNCHANGED buckets
        ELSE IF me.cmd \in TimedCommands
        THEN TimedDecide(t)
        ELSE /\ task' = [task EXCEPT ![t] =
                    IF verdict = "ok"
                    THEN [me EXCEPT !.pc = "game_load", !.edata = EmptyStore]
                    ELSE Idle]
             /\ sent' = IF verdict = "ok" THEN NoReply
                        ELSE Reply(me.user, me.cmd, verdict, user_data.balance)
             /\ UNCHANGED buckets

\* ---------------------------------------------------------------- actions
\* the tasks are interchangeable: a new command takes the lowest idle one
CanInvoke(t) ==
    /\ task[t].pc = "idle"
    /\ \A o \in Tasks : o < t => task[o].pc # "idle"
    /\ started < MaxCmds

\* balance: its own load_data result is never used; ensure_user_data follows
InvokeBalance(t, u) ==
    /\ CanInvoke(t)
    /\ task' = [task EXCEPT ![t] = Begin("balance", u, "ens_load")]
    /\ sent' = NoReply
    /\ started' = started + 1
    /\ UNCHANGED <<call, now, fileState, persisted, buckets, settled>>

\* daily / checklist: the cooldown decorator, then `data = await load_data()`
InvokeTimed(t, u, c) ==
    /\ CanInvoke(t)
    /\ LET r == update_rate_limit(buckets[c][u], now,
                                  SecondsPerHour * Cooldown(c))
       IN  /\ buckets' = [buckets EXCEPT ![c][u] = r.bucket]
           /\ task' = [task EXCEPT ![t] =
                  IF r.retry_after # 0 THEN Idle
                  ELSE [Begin(c, u, "ens_load") EXCEPT !.data = load_data]]
           /\ sent' = IF r.retry_after # 0
                      THEN Reply(u, c, "suppressed", r.retry_after)
                      ELSE NoReply
    /\ started' = started + 1
    /\ UNCHANGED <<call, now, fileState, persisted, settled>>

InvokeFlip(t, u, choice, amt) ==
    /\ CanInvoke(t)
    /\ LET refusal ==
              IF amt.given /\ ~amt.int THEN "BadArgument"
              ELSE IF choice = "none" \/ ~amt.given THEN "usage"
              ELSE IF Lower(choice) \notin Sides THEN "invalid_choice"
              ELSE "none"
       IN  /\ task' = [task EXCEPT ![t] =
                  IF refusal # "none" THEN Idle
                  ELSE [Begin("flip", u, "ens_load") EXCEPT
                           !.choice = Lower(choice), !.amount = amt.v]]
           /\ sent' = IF refusal # "none" THEN Reply(u, "flip", refusal, 0)
                      ELSE NoReply
    /\ started' = started + 1
    /\ UNCHANGED <<call, now, fileState, persisted, buckets, settled>>

InvokeWager(t, u, c, amt) ==
    /\ CanInvoke(t)
    /\ LET refusal ==
              IF amt.given /\ ~amt.int THEN "BadArgument"
              ELSE IF ~amt.given THEN "usage"
              ELSE "none"
       IN  /\ task' = [task EXCEPT ![t] =
                  IF refusal # "none" THEN Idle
                  ELSE [Begin(c, u, "ens_load") EXCEPT !.amount = amt.v]]
           /\ sent' = IF refusal # "none" THEN Reply(u, c, refusal, 0)
                      ELSE NoReply
    /\ started' = started + 1
    /\ UNCHANGED <<call, now, fileState, persisted, buckets, settled>>

\* ensure_user_data: load, and either return the record or add it and save
EnsureLoad(t) ==
    /\ task[t].pc = "ens_load"
    /\ IF task[t].user \in DOMAIN load_data
       THEN AfterEnsure(t, load_data)
       ELSE /\ task' = [task EXCEPT ![t] =
                   [@ EXCEPT !.pc = "save_open", !.cont = "ensure",
                             !.edata = Put(load_data, task[t].user,
                                           DefaultAccount)]]
            /\ sent' = NoReply
            /\ UNCHANGED buckets
    /\ UNCHANGED <<call, now, fileState, persisted, started, settled>>

\* save_data, first half: open(DATA_FILE, 'w') creates or truncates the file
SaveOpen(t) ==
    /\ task[t].pc = "save_open"
    /\ fileState' = "empty"
    /\ task' = [task EXCEPT ![t] = [@ EXCEPT !.pc = "save_dump"]]
    /\ sent' = NoReply
    /\ UNCHANGED <<call, now, persisted, buckets, started, settled>>

Written(t) == IF task[t].cont = "ensure" THEN task[t].edata ELSE task[t].data

\* blackjack lines 402-462: the round is played as soon as the deduction is
\* saved; an exception ends the command there, with the bet already taken
PlayRound(t, deck) ==
    LET me == task[t]
        round == BlackjackRound(deck, me.amount)
    IN  IF round.raised # "none"
        THEN /\ task' = [task EXCEPT ![t] = Idle]
             /\ sent' = Reply(me.user, me.cmd, round.raised, 0)
        ELSE /\ task' = [task EXCEPT ![t] =
                    [me EXCEPT !.pc = "bj_load",
                               !.net = round.winnings,
                               !.reply = Reply(me.user, me.cmd, round.result,
                                               round.winnings - me.amount)]]
             /\ sent' = NoReply

\* the code that follows `await save_data(...)`, up to the next await
AfterSave(t, ok) ==
    LET me == task[t]
    IN  IF me.cont = "ensure"
        THEN AfterEnsure(t, me.edata) /\ UNCHANGED settled
        ELSE IF me.cont = "deducted"
        THEN /\ \E deck \in Shuffles : PlayRound(t, deck)
             /\ settled' = IF ok
                           THEN [settled EXCEPT ![me.user] = @ - me.amount]
                           ELSE settled
             /\ UNCHANGED buckets
        ELSE /\ task' = [task EXCEPT ![t] = Idle]
             /\ sent' = me.reply
             /\ settled' = IF ok
                           THEN [settled EXCEPT ![me.user] = @ + me.net]
                           ELSE settled
             /\ UNCHANGED buckets

\* save_data, second half: json.dump writes the document and the file closes.
\* Each writer has its own file offset, so bytes another writer put in the
\* file after this writer's truncation stay behind the end of a shorter
\* document; a mapping with more accounts is the longer document.
SaveDump(t) ==
    /\ task[t].pc = "save_dump"
    /\ \E intact \in BOOLEAN :
        /\ fileState = "empty" => intact
        /\ (fileState = "valid" /\ Written(t) = persisted) => intact
        /\ (fileState = "valid" /\ Cardinality(DOMAIN Written(t))
                                     > Cardinality(DOMAIN persisted)) => intact
        /\ (fileState = "valid" /\ Cardinality(DOMAIN Written(t))
                                     < Cardinality(DOMAIN persisted)) => ~intact
        /\ fileState' = IF intact THEN "valid" ELSE "garbage"
        /\ persisted' = IF intact THEN Written(t) ELSE persisted
    /\ AfterSave(t, TRUE)
    /\ UNCHANGED <<call, now, started>>

\* save_data when the write raises (OSError): "Error saving data" is printed,
\* the truncated file is left as it is and the caller carries on
SaveFail(t) ==
    /\ task[t].pc = "save_dump"
    /\ AfterSave(t, FALSE)
    /\ UNCHANGED <<call, now, fileState, persisted, started>>

\* the end of a wager whose data[user_id] raised KeyError
Abort(me) == Reply(me.user, me.cmd, "KeyError", 0)

\* coin_flip lines 261-284, up to save_data
FlipResolve(t) ==
    /\ task[t].pc = "game_load" /\ task[t].cmd = "flip"
    /\ \E result \in Sides :
        LET me == task[t]
            data == load_data
            rec == FlipSettle(data[me.user], me.choice, result, me.amount)
        IN  /\ task' = [task EXCEPT ![t] =
                IF me.user \notin DOMAIN data THEN Idle
                ELSE [me EXCEPT !.pc = "save_open", !.cont = "final",
                                !.data = Put(data, me.user, rec),
                                !.net = rec.balance - data[me.user].balance,
                                !.reply = Reply(me.user, me.cmd,
                                                IF me.choice = result
                                                THEN "flip_win" ELSE "flip_loss",
                                                rec.balance)]]
            /\ sent' = IF me.user \notin DOMAIN data THEN Abort(me)
                       ELSE NoReply
    /\ UNCHANGED <<call, now, fileState, persisted, buckets, started, settled>>

\* slot_machine lines 305-341, up to save_data
SlotResolve(t) ==
    /\ task[t].pc = "game_load" /\ task[t].cmd = "slot"
    /\ \E s1 \in emojis, s2 \in emojis, s3 \in emojis :
        LET me == task[t]
            data == load_data
            rec == SlotSettle(data[me.user], s1, s2, s3, me.amount)
        IN  /\ task' = [task EXCEPT ![t] =
                IF me.user \notin DOMAIN data THEN Idle
                ELSE [me EXCEPT !.pc = "save_open", !.cont = "final",
                                !.data = Put(data, me.user, rec),
                                !.net = rec.balance - data[me.user].balance,
                                !.reply = Reply(me.user, me.cmd,
                                                SlotClass(s1, s2, s3),
                                                rec.balance)]]
            /\ sent' = IF me.user \notin DOMAIN data THEN Abort(me)
                       ELSE NoReply
    /\ UNCHANGED <<call, now, fileState, persisted, buckets, started, settled>>

\* blackjack lines 397-400: the bet is deducted and saved first
BlackjackDeduct(t) ==
    /\ task[t].pc = "game_load" /\ task[t].cmd = "blackjack"
    /\ LET me == task[t]
           data == load_data
       IN  /\ task' = [task EXCEPT ![t] =
               IF me.user \notin DOMAIN data THEN Idle
               ELSE [me EXCEPT !.pc = "save_open", !.cont = "deducted",
                               !.data = Put(data, me.user,
                                   [data[me.user] EXCEPT
                                       !.balance = @ - me.amount])]]
           /\ sent' = IF me.user \notin DOMAIN data THEN Abort(me)
                      ELSE NoReply
    /\ UNCHANGED <<call, now, fileState, persisted, buckets, started, settled>>

\* blackjack lines 461-470: the store is loaded again and the winnings are
\* credited.  No behaviour gets here: PlayRound raises for every deck that
\* create_deck builds, so the action is in no next-state relation.
BlackjackResolve(t) ==
    /\ task[t].pc = "bj_load"
    /\ LET me == task[t]
           data == load_data
       IN  /\ task' = [task EXCEPT ![t] =
               IF me.user \notin DOMAIN data THEN Idle
               ELSE [me EXCEPT !.pc = "save_open", !.cont = "final",
                               !.data = Put(data, me.user,
                                   BlackjackSettle(data[me.user], me.net,
                                                   me.amount))]]
           /\ sent' = IF me.user \notin DOMAIN data THEN Abort(me)
                      ELSE NoReply
    /\ UNCHANGED <<call, now, fileState, persisted, buckets, started, settled>>

\* time passes
Tick ==
    /\ now + TickStep <= MaxTicks * TickStep
    /\ now' = now + TickStep
    /\ sent' = NoReply
    /\ UNCHANGED <<call, fileState, persisted, buckets, task, started, settled>>

\* the process is restarted: running commands are gone and so are the
\* in-memory cooldown buckets; the file stays as it is
Restart ==
    /\ task' = [t \in Tasks |-> Idle]
    /\ buckets' = [c \in TimedCommands |-> [u \in Users |-> FreshBucket]]
    /\ sent' = NoReply
    /\ UNCHANGED <<call, now, fileState, persisted, started, settled>>

\* the steps of ensure_user_data and save_data, shared by every command
StoreStep ==
    \/ \E t \in Tasks : EnsureLoad(t)
    \/ \E t \in Tasks : SaveOpen(t)
    \/ \E t \in Tasks : SaveDump(t)

\* every command, interleaved at its awaits, while writes succeed and the
\* process stays up
Run ==
    \/ \E t \in Tasks, u \in Users : InvokeBalance(t, u)
    \/ \E t \in Tasks, u \in Users, c \in TimedCommands : InvokeTimed(t, u, c)
    \/ \E t \in Tasks, u \in Users, ch \in RawChoices, a \in RawAmounts :
          InvokeFlip(t, u, ch, a)
    \/ \E t \in Tasks, u \in Users, c \in {"slot", "blackjack"},
          a \in RawAmounts : InvokeWager(t, u, c, a)
    \/ StoreStep
    \/ \E t \in Tasks : FlipResolve(t)
    \/ \E t \in Tasks : SlotResolve(t)
    \/ \E t \in Tasks : BlackjackDeduct(t)
    \/ Tick

Next ==
    \/ Run
    \/ \E t \in Tasks : SaveFail(t)
    \/ Restart

Spec == Init /\ [][Next]_vars

\* the same program while no write fails and the process is not restarted
SpecRace == Init /\ [][Run]_vars

\* flip commands only, racing each other, with failing writes
NextFlip ==
    \/ \E t \in Tasks, u \in Users, ch \in RawChoices, a \in RawAmounts :
          InvokeFlip(t, u, ch, a)
    \/ StoreStep
    \/ \E t \in Tasks : SaveFail(t)
    \/ \E t \in Tasks : FlipResolve(t)

SpecFlip == Init /\ [][NextFlip]_vars

\* slot commands only, racing each other, with failing writes
NextSlot ==
    \/ \E t \in Tasks, u \in Users, a \in RawAmounts :
          InvokeWager(t, u, "slot", a)
    \/ StoreStep
    \/ \E t \in Tasks : SaveFail(t)
    \/ \E t \in Tasks : SlotResolve(t)

SpecSlot == Init /\ [][NextSlot]_vars

\* a record written by an older version of the program, from before the
\* checklist and the gambling total existed
LegacyFields ==
    (DOMAIN DefaultAccount) \ {"checklist_last_claimed", "total_gambled"}
LegacyAccount == [f \in LegacyFields |-> DefaultAccount[f]]

InitLegacy ==
    /\ persisted = [u \in {"u1"} |-> LegacyAccount]
    /\ call = NoCall
    /\ Boot

\* balance, daily and checklist on a store that holds an old record
NextLegacy ==
    \/ \E t \in Tasks, u \in Users : InvokeBalance(t, u)
    \/ \E t \in Tasks, u \in Users, c \in TimedCommands : InvokeTimed(t, u, c)
    \/ StoreStep
    \/ Tick

SpecLegacy == InitLegacy /\ [][NextLegacy]_vars

\* ------------------------------------------------ functions on their own
\* calculate_hand_value on hands of cards that create_deck builds
MaxHand == 3             \* cards in a hand
HandCards ==
    {Card(Ranks[i], CARD_SUITS[j]) : i \in 1..Len(Ranks), j \in 1..2}
InitHand ==
    /\ persisted = EmptyStore
    /\ call = [fn |-> "calculate_hand_value", hand |-> <<>>, done |-> FALSE,
               out |-> Returned(0)]
    /\ Boot

\* one more card in the hand that will be scored
TakeCard(card) ==
    /\ call.fn = "calculate_hand_value"
    /\ ~call.done
    /\ Len(call.hand) < MaxHand
    /\ call' = [call EXCEPT !.hand = Append(@, card)]
    /\ UNCHANGED <<now, fileState, persisted, buckets, task, sent, started,
                   settled>>

ScoreHand ==
    /\ call.fn = "calculate_hand_value"
    /\ ~call.done
    /\ call' = [call EXCEPT !.done = TRUE,
                            !.out = calculate_hand_value(call.hand)]
    /\ UNCHANGED <<now, fileState, persisted, buckets, task, sent, started,
                   settled>>

NextHand ==
    \/ \E card \in HandCards : TakeCard(card)
    \/ ScoreHand

SpecHand == InitHand /\ [][NextHand]_vars

\* blackjack from the deduction to the settlement (lines 397-468), on one
\* account record: the bet is taken, the round is played, and the winnings
\* are credited unless the round raised
BlackjackCommand(user_data, deck, amt) ==
    LET deducted == [user_data EXCEPT !.balance = @ - amt]
        round == BlackjackRound(deck, amt)
    IN  [round |-> round,
         account |-> IF round.raised # "none" THEN deducted
                     ELSE BlackjackSettle(deducted, round.winnings, amt)]

\* the ranks popped first from the shuffled deck, and the bets placed
RoundRanks == {"A", "K", "9", "6", "5", "2"}
RoundBets == {3, 500}
RoundDeals == [1..4 -> RoundRanks]

InitRound ==
    /\ persisted = EmptyStore
    /\ call \in {[fn |-> "blackjack", ranks |-> r, amount |-> a,
                  done |-> FALSE, out |-> NoCall] :
                      r \in RoundDeals, a \in RoundBets}
    /\ Boot

PlayBlackjack ==
    /\ call.fn = "blackjack"
    /\ ~call.done
    /\ call' = [call EXCEPT
                   !.done = TRUE,
                   !.out = BlackjackCommand(DefaultAccount,
                                            create_deck(Deal(call.ranks)),
                                            call.amount)]
    /\ UNCHANGED <<now, fileState, persisted, buckets, task, sent, started,
                   settled>>

SpecRound == InitRound /\ [][PlayBlackjack]_vars

\* leaderboard (lines 492-506) on a store of its own.  The store is the
\* loaded dict as the sequence of its items, in the dict's iteration order;
\* item i belongs to user id i.
MaxAccounts == 11        \* accounts in the store
MaxBroke == 1           \* accounts among them whose balance is not above 0
TopN == 10
BoardBalances == {0, 1, 2}
Broke(items) == Cardinality({i \in 1..Len(items) : items[i].balance <= 0})
\* [item for item in data.items() if balance > 0]
RECURSIVE WithBalance(_)
WithBalance(items) ==
    IF Len(items) = 0 THEN <<>>
    ELSE (IF Head(items).balance > 0 THEN <<Head(items)>> ELSE <<>>)
         \o WithBalance(Tail(items))

\* sorted(items, key=balance, reverse=True): a stable sort, and reverse=True
\* keeps items of equal key in their original order.  Computed by inserting
\* each item after the items already placed whose key is not smaller.
\* mutant: an item goes ahead of the placed items of equal key
InsertItemAheadOfEquals(placed, item) ==
    LET k == Cardinality({i \in 1..Len(placed) :
                             placed[i].balance > item.balance})
    IN  SubSeq(placed, 1, k) \o <<item>> \o SubSeq(placed, k + 1, Len(placed))

InsertItem(placed, item) ==
    LET k == Cardinality({i \in 1..Len(placed) :
                             placed[i].balance >= item.balance})
    IN  SubSeq(placed, 1, k) \o <<item>> \o SubSeq(placed, k + 1, Len(placed))
RECURSIVE SortedFrom(_, _)
SortedFrom(placed, items) ==
    IF Len(items) = 0 THEN placed
    ELSE SortedFrom(InsertItem(placed, Head(items)), Tail(items))
sorted_users(data) == SortedFrom(<<>>, WithBalance(data))

\* what leaderboard lists: nothing (the "empty" message) or the first ten
leaderboard(data) ==
    LET ranked == sorted_users(data)
    IN  [empty |-> Len(ranked) = 0,
         rows |-> SubSeq(ranked, 1, IF Len(ranked) < TopN THEN Len(ranked)
                                    ELSE TopN)]

InitBoard ==
    /\ persisted = EmptyStore
    /\ call = [fn |-> "leaderboard", data |-> <<>>, done |-> FALSE,
               out |-> NoCall]
    /\ Boot

\* one more account in the store the leaderboard will be given
AddAccount(balance) ==
    /\ call.fn = "leaderboard"
    /\ ~call.done
    /\ Len(call.data) < MaxAccounts
    /\ balance <= 0 => Broke(call.data) < MaxBroke
    /\ call' = [call EXCEPT !.data = Append(@, [uid |-> Len(@) + 1,
                                                balance |-> balance])]
    /\ UNCHANGED <<now, fileState, persisted, buckets, task, sent, started,
                   settled>>

ListLeaders ==
    /\ call.fn = "leaderboard"
    /\ ~call.done
    /\ call' = [call EXCEPT !.done = TRUE, !.out = leaderboard(call.data)]
    /\ UNCHANGED <<now, fileState, persisted, buckets, task, sent, started,
                   settled>>

NextBoard ==
    \/ \E balance \in BoardBalances : AddAccount(balance)
    \/ ListLeaders

SpecBoard == InitBoard /\ [][NextBoard]_vars

\* get_cooldown_message on timestamps of every kind a record can hold: the
\* sentinel "0", text that fromisoformat rejects, a time without an offset
\* (comparing it with the aware now_utc raises TypeError) and an aware time
Unparsable == [kind |-> "garbage", secs |-> 0]
Naive(t) == [kind |-> "naive", secs |-> t]
ClaimTimes == {k * TickStep + e : k \in 0..MaxTicks, e \in {0, 1}}
ProbeTimes == {k * TickStep + e : k \in 0..(MaxTicks + 2), e \in {0, 1, 2}}
Timestamps ==
    {Sentinel, Unparsable} \cup {Naive(t) : t \in ClaimTimes}
        \cup {IsoFormat(t) : t \in ClaimTimes}
CooldownHours == {COOLDOWN_DAILY, COOLDOWN_CHECKLIST}

InitCooldown ==
    /\ persisted = EmptyStore
    /\ call \in {[fn |-> "get_cooldown_message", last_claimed_timestamp |-> ts,
                  cooldown_hours |-> h, now_utc |-> n, done |-> FALSE,
                  out |-> NoMessage] :
                      ts \in Timestamps, h \in CooldownHours, n \in ProbeTimes}
    /\ Boot

CheckCooldown ==
    /\ call.fn = "get_cooldown_message"
    /\ ~call.done
    /\ call' = [call EXCEPT
                   !.done = TRUE,
                   !.out = get_cooldown_message(call.last_claimed_timestamp,
                                                call.cooldown_hours,
                                                call.now_utc)]
    /\ UNCHANGED <<now, fileState, persisted, buckets, task, sent, started,
                   settled>>

SpecCooldown == InitCooldown /\ [][CheckCooldown]_vars

\* ================================================================= claims
Counters ==
    {"wins_flip", "losses_flip", "wins_slot", "losses_slot",
     "wins_bj", "losses_bj"}
AllIdle == \A t \in Tasks : task[t].pc = "idle"

\* a command of task t ends in this step (a restart ends no command: it
\* sends nothing and starts nothing)
Ends(t) ==
    /\ task[t].pc # "idle"
    /\ task'[t].pc = "idle"
    /\ sent' # NoReply

\* save_data returns to task t's coroutine in this step
SaveReturns(t) ==
    /\ task[t].pc = "save_dump"
    /\ task'[t].pc # "save_dump"
    /\ task'[t].pc # "idle" \/ sent' # NoReply

\* C1: every persisted balance is non-negative in every reachable state, for
\* every interleaving of flip, slot and blackjack commands that passed
\* check_bet (every account starts with a non-negative balance).
C1_BalanceNeverNegative ==
    \A u \in DOMAIN persisted : persisted[u].balance >= 0

\* C2: ledger conservation: once every command has completed, each account's
\* persisted balance is the initial balance plus the sum of the net deltas of
\* the commands that completed for it; no update is lost or applied twice.
C2_LedgerConservation ==
    (AllIdle /\ fileState = "valid") =>
        \A u \in DOMAIN persisted :
            persisted[u].balance = INITIAL_BALANCE + settled[u]

\* C3: accounts are never deleted: a user that has a record in one persisted
\* store state has a record in the next one.
C3_AccountsNeverDeleted ==
    [][(DOMAIN persisted) \subseteq (DOMAIN persisted')]_vars

\* C4: save_data is all-or-nothing: when save_data returns, a later load_data
\* reads either the mapping that was saved or the store as it was before the
\* save, never an empty or partial file.
C4_SaveAllOrNothing ==
    [][\A t \in Tasks :
          SaveReturns(t) =>
              \/ load_data' = Written(t)
              \/ load_data' = persisted]_vars

\* C5: each persisted win/loss counter of each account is a non-negative
\* integer and never decreases from one persisted store state to the next.
C5_CountersMonotone ==
    [][\A u \in (DOMAIN persisted) \cap (DOMAIN persisted') :
          \A c \in Counters :
              /\ persisted'[u][c] >= 0
              /\ persisted'[u][c] >= persisted[u][c]]_vars

\* C6: check_bet returns False exactly for an amount that is missing, not an
\* integer, <= 0 or above the balance, and a wager command that it rejects
\* stops and leaves the balance, the counters and total_gambled of the
\* existing account unchanged in the persisted store.
BetRejections == {"bet_invalid", "bet_nonpositive", "bet_insufficient"}
\* check_bet returns to the wager command of task t in this step
CheckBetReturns(t) ==
    /\ task[t].cmd \in WagerCommands
    /\ task[t].cont \in {"none", "ensure"}
    /\ task[t].pc \in {"ens_load", "save_dump"}
    /\ Ends(t) \/ task'[t].pc = "game_load"
\* the balance of the record ensure_user_data returned to check_bet
CheckedBalance(t) ==
    IF task[t].pc = "ens_load" THEN load_data[task[t].user].balance
    ELSE task[t].edata[task[t].user].balance
C6_RejectedBetChangesNothing ==
    [][\A t \in Tasks :
          CheckBetReturns(t) =>
              /\ (sent'.kind \in BetRejections)
                    <=> (task[t].amount <= 0
                            \/ task[t].amount > CheckedBalance(t))
              /\ (sent'.kind \in BetRejections) =>
                    /\ task'[t].pc = "idle"
                    /\ \A u \in {task[t].user} \cap DOMAIN persisted :
                          /\ u \in DOMAIN persisted'
                          /\ persisted'[u].balance = persisted[u].balance
                          /\ persisted'[u].total_gambled
                                = persisted[u].total_gambled
                          /\ \A c \in Counters :
                                persisted'[u][c] = persisted[u][c]]_vars

\* C7: a daily invoked less than 24 hours after the user's successful claim is
\* refused with a reported remaining duration that is positive, and changes
\* neither the balance nor daily_last_claimed.
ClaimedWithinDay(u) ==
    /\ fileState = "valid"
    /\ u \in DOMAIN persisted
    /\ persisted[u].daily_last_claimed.kind = "aware"
    /\ now < persisted[u].daily_last_claimed.secs
               + COOLDOWN_DAILY * SecondsPerHour
C7_DailyCooldownReported ==
    [][\A u \in Users :
          (sent'.cmd = "daily" /\ sent'.user = u /\ ClaimedWithinDay(u)) =>
              /\ sent'.kind = "cooldown"
              /\ sent'.n > 0
              /\ persisted' = persisted]_vars

\* C8: a daily or checklist by a user whose stored timestamp is the
\* never-claimed sentinel, a user without an account included, is granted:
\* the persisted balance grows by exactly the reward (from 500 for a fresh
\* account) and the timestamp becomes the current UTC time.
NeverClaimed(u, c) ==
    u \in DOMAIN persisted => Stamp(persisted[u], c) = Sentinel
BalanceBefore(u) ==
    IF u \in DOMAIN persisted THEN persisted[u].balance ELSE INITIAL_BALANCE
C8_FirstClaimGranted ==
    [][\A u \in Users, c \in TimedCommands :
          (\E t \in Tasks : Ends(t) /\ task[t].cmd = c /\ task[t].user = u
                                     /\ NeverClaimed(u, c)) =>
              /\ sent'.kind = "claimed"
              /\ u \in DOMAIN persisted'
              /\ persisted'[u].balance = BalanceBefore(u) + Reward(c)
              /\ Stamp(persisted'[u], c) = IsoFormat(now)]_vars

\* C9: a coin-flip round that passed validation resolves as exactly one of
\* win or loss: a win adds exactly the bet to the balance and 1 to wins_flip
\* and leaves losses_flip; a loss takes exactly the bet and adds 1 to
\* losses_flip and leaves wins_flip; both add exactly the bet to
\* total_gambled.  Stated of the record the round read (line 262) and the
\* record it hands to save_data (line 284).
FlipResolved(t) ==
    /\ task[t].cmd = "flip"
    /\ task[t].pc = "game_load"
    /\ task'[t].pc = "save_open"
FlipWon(before, after, bet) ==
    /\ after.balance = before.balance + bet
    /\ after.wins_flip = before.wins_flip + 1
    /\ after.losses_flip = before.losses_flip
FlipLost(before, after, bet) ==
    /\ after.balance = before.balance - bet
    /\ after.losses_flip = before.losses_flip + 1
    /\ after.wins_flip = before.wins_flip
C9_FlipWinOrLoss ==
    [][\A t \in Tasks :
          FlipResolved(t) =>
              LET before == load_data[task[t].user]
                  after == task'[t].data[task[t].user]
                  bet == task[t].amount
              IN  /\ bet > 0
                  /\ FlipWon(before, after, bet) # FlipLost(before, after, bet)
                  /\ FlipWon(before, after, bet)
                        <=> task'[t].reply.kind = "flip_win"
                  /\ FlipLost(before, after, bet)
                        <=> task'[t].reply.kind = "flip_loss"
                  /\ after.total_gambled = before.total_gambled + bet
                  /\ task'[t].net = after.balance - before.balance]_vars

\* a user has won one flip and lost the next, and both are on file
C9_Witness ==
    /\ sent.kind = "flip_loss"
    /\ fileState = "valid"
    /\ \E u \in DOMAIN persisted :
          /\ persisted[u].wins_flip = 1
          /\ persisted[u].losses_flip = 1
          /\ persisted[u].balance = INITIAL_BALANCE
          /\ persisted[u].total_gambled = 1000

\* C10: each of the 125 ordered draws of three symbols falls in exactly one
\* class: all equal (5 draws) adds exactly 9 * bet and 1 to wins_slot; exactly
\* two equal, in any pairing (60 draws), adds exactly the bet and 1 to
\* wins_slot; all distinct (60 draws) takes exactly the bet and adds 1 to
\* losses_slot.
Draws == emojis \X emojis \X emojis
Distinct(d) == Cardinality({d[1], d[2], d[3]})
ClassOf(d) == SlotClass(d[1], d[2], d[3])
SlotPartition ==
    /\ Cardinality(Draws) = 125
    /\ \A d \in Draws :
          /\ ClassOf(d) = "triple" <=> Distinct(d) = 1
          /\ ClassOf(d) = "double" <=> Distinct(d) = 2
          /\ ClassOf(d) = "loss" <=> Distinct(d) = 3
    /\ Cardinality({d \in Draws : ClassOf(d) = "triple"}) = 5
    /\ Cardinality({d \in Draws : ClassOf(d) = "double"}) = 60
    /\ Cardinality({d \in Draws : ClassOf(d) = "loss"}) = 60
SlotResolved(t) ==
    /\ task[t].cmd = "slot"
    /\ task[t].pc = "game_load"
    /\ task'[t].pc = "save_open"
C10_SlotClasses ==
    [][\A t \in Tasks :
          SlotResolved(t) =>
              LET before == load_data[task[t].user]
                  after == task'[t].data[task[t].user]
                  bet == task[t].amount
                  class == task'[t].reply.kind
              IN  /\ SlotPartition
                  /\ class \in {"triple", "double", "loss"}
                  /\ class = "triple" =>
                        /\ after.balance = before.balance + 9 * bet
                        /\ after.wins_slot = before.wins_slot + 1
                        /\ after.losses_slot = before.losses_slot
                  /\ class = "double" =>
                        /\ after.balance = before.balance + bet
                        /\ after.wins_slot = before.wins_slot + 1
                        /\ after.losses_slot = before.losses_slot
                  /\ class = "loss" =>
                        /\ after.balance = before.balance - bet
                        /\ after.losses_slot = before.losses_slot + 1
                        /\ after.wins_slot = before.wins_slot]_vars

\* a triple has been paid out and saved
C10_Witness ==
    /\ sent.kind = "triple"
    /\ fileState = "valid"
    /\ sent.user \in DOMAIN persisted
    /\ persisted[sent.user].balance = INITIAL_BALANCE + 9 * 500
    /\ persisted[sent.user].wins_slot = 1

\* C11: calculate_hand_value scores every hand by the standard rule: the
\* largest total <= 21 that counting each ace as 11 or 1 can reach, and the
\* total with every ace as 1 when there is none ([A, A, 9] is 21, [K, Q] is
\* 20, [A, K] is 21).
RankOf(card) ==
    CHOOSE r \in DOMAIN CARD_VALUES :
        \E j \in 1..Len(CARD_SUITS) : Card(r, CARD_SUITS[j]) = card
RECURSIVE HardTotal(_)
HardTotal(hand) ==
    IF Len(hand) = 0 THEN 0
    ELSE (IF RankOf(Head(hand)) = "A" THEN 1
          ELSE CARD_VALUES[RankOf(Head(hand))])
         + HardTotal(Tail(hand))
AcesIn(hand) == Cardinality({i \in 1..Len(hand) : RankOf(hand[i]) = "A"})
Totals(hand) == {HardTotal(hand) + 10 * k : k \in 0..AcesIn(hand)}
StandardScore(hand) ==
    IF \E v \in Totals(hand) : v <= 21
    THEN CHOOSE v \in Totals(hand) :
            v <= 21 /\ \A w \in Totals(hand) : w <= 21 => w <= v
    ELSE HardTotal(hand)
C11_StandardScoring ==
    (call.fn = "calculate_hand_value" /\ call.done) =>
        call.out = Returned(StandardScore(call.hand))

\* the round examined on its own: what was dealt, by the claims' reading of
\* the cards (rank and suit), and what the account shows afterwards
RoundDone == call.fn = "blackjack" /\ call.done
Dealt == Deal(call.ranks)
PlayerDealt == SubSeq(Dealt, 1, 2)
DealerDealt == SubSeq(Dealt, 3, 4)
RestOfDeck == SubSeq(create_deck(Dealt), 1, Len(OrderedDeck) - Len(Dealt))
\* the dealer's hand after drawing while its standard score is below 17
RECURSIVE DealerStandsOn(_, _)
DealerStandsOn(hand, deck) ==
    IF StandardScore(hand) >= 17 \/ Len(deck) = 0 THEN hand
    ELSE DealerStandsOn(Append(hand, deck[Len(deck)]),
                        SubSeq(deck, 1, Len(deck) - 1))
PlayerTotal == StandardScore(PlayerDealt)
DealerFirstTotal == StandardScore(DealerDealt)
DealerFinalTotal == StandardScore(DealerStandsOn(DealerDealt, RestOfDeck))
NetChange == call.out.account.balance - DefaultAccount.balance
WinsBj == call.out.account.wins_bj - DefaultAccount.wins_bj
LossesBj == call.out.account.losses_bj - DefaultAccount.losses_bj

\* C12: without a player natural, a dealer total above 21 or a higher player
\* total nets +bet and increments only wins_bj; a lower player total nets
\* -bet and increments only losses_bj; equal totals net 0 and increment
\* neither.  Every resolution increments at most one of the two counters and
\* a push (natural against dealer 21 included) increments neither.
C12_BlackjackResolution ==
    RoundDone =>
        /\ PlayerTotal # 21 =>
              /\ (DealerFinalTotal > 21 \/ PlayerTotal > DealerFinalTotal) =>
                    NetChange = call.amount /\ WinsBj = 1 /\ LossesBj = 0
              /\ (DealerFinalTotal <= 21 /\ PlayerTotal < DealerFinalTotal) =>
                    NetChange = -call.amount /\ WinsBj = 0 /\ LossesBj = 1
              /\ PlayerTotal = DealerFinalTotal =>
                    NetChange = 0 /\ WinsBj = 0 /\ LossesBj = 0
        /\ WinsBj + LossesBj <= 1
        /\ (PlayerTotal = 21 /\ DealerFirstTotal = 21) =>
              NetChange = 0 /\ WinsBj = 0 /\ LossesBj = 0

\* C13: when the player's first two cards total 21 and the dealer's first two
\* do not, the net balance change is exactly 1.5 times the bet, for odd bets
\* too, and wins_bj increments by 1.
C13_NaturalPayout ==
    (RoundDone /\ PlayerTotal = 21 /\ DealerFirstTotal # 21) =>
        /\ 2 * NetChange = 3 * call.amount
        /\ WinsBj = 1

\* C18: for every shuffle, when the player has no natural the dealer draws one
\* card at a time exactly while the dealer total is below 17; the loop ends
\* without exhausting the deck with a dealer total of at least 17, and no card
\* is held twice across the two hands.
HeldCards == call.out.round.player_hand \o call.out.round.dealer_hand
C18_DealerTurn ==
    (RoundDone /\ PlayerTotal # 21) =>
        /\ call.out.round.raised = "none"
        /\ call.out.round.dealer_hand = DealerStandsOn(DealerDealt, RestOfDeck)
        /\ call.out.round.dealer_score >= 17
        /\ \A i, j \in 1..Len(HeldCards) : i # j => HeldCards[i] # HeldCards[j]

\* C14: the leaderboard lists exactly the accounts with balance > 0, by
\* balance descending, accounts of equal balance in the store's iteration
\* order, cut to at most 10 entries; an account with balance <= 0 is never
\* listed.
Listed == {i \in 1..Len(call.data) : call.data[i].balance > 0}
\* the accounts that rank ahead of account i
Ahead(i) ==
    {j \in Listed :
        \/ call.data[j].balance > call.data[i].balance
        \/ call.data[j].balance = call.data[i].balance /\ j < i}
C14_Leaderboard ==
    (call.fn = "leaderboard" /\ call.done) =>
        LET rows == call.out.rows
        IN  /\ call.out.empty <=> Listed = {}
            /\ Len(rows) = IF Cardinality(Listed) < 10
                           THEN Cardinality(Listed) ELSE 10
            /\ \A i \in Listed :
                  Cardinality(Ahead(i)) < 10 =>
                      rows[Cardinality(Ahead(i)) + 1] = call.data[i]
            /\ \A k \in 1..Len(rows) : rows[k].balance > 0

\* eleven accounts with a balance, the last two richer than the rest: ten are
\* listed, the two rich ones first, and the ninth poor one is cut
C14_Witness ==
    /\ call.fn = "leaderboard" /\ call.done
    /\ Len(call.data) = 11
    /\ Cardinality(Listed) = 11
    /\ Len(call.out.rows) = 10
    /\ call.out.rows[1].uid = 10 /\ call.out.rows[2].uid = 11
    /\ call.out.rows[3].uid = 1 /\ call.out.rows[10].uid = 8

\* C15: ensure_user_data creates an absent account with balance 500, sentinel
\* timestamps and all counters 0 and persists it at once; for an account
\* that exists it performs no save, returns the stored record and changes
\* none of its fields (so a second call right after the first does nothing).
\* ensure_user_data runs its load_data for task t in this step
EnsureLoads(t) == task[t].pc = "ens_load" /\ task'[t].pc # "ens_load"
\* the save_data that ensure_user_data called returns to task t in this step
EnsureSaved(t) == SaveReturns(t) /\ task[t].cont = "ensure"
C15_EnsureUserData ==
    [][\A t \in Tasks :
          LET u == task[t].user
          IN  /\ (EnsureLoads(t) /\ u \notin DOMAIN persisted) =>
                    /\ task'[t].pc = "save_open"
                    /\ task'[t].cont = "ensure"
                    /\ task'[t].edata[u] = DefaultAccount
              /\ (EnsureLoads(t) /\ u \in DOMAIN persisted) =>
                    /\ task'[t].cont # "ensure"
                    /\ persisted' = persisted
                    /\ sent'.kind = "balance" => sent'.n = persisted[u].balance
              /\ EnsureSaved(t) =>
                    /\ fileState' = "valid"
                    /\ u \in DOMAIN persisted'
                    /\ persisted'[u] =
                          IF u \in DOMAIN persisted THEN persisted[u]
                          ELSE DefaultAccount]_vars

\* C16: when ensure_user_data finds a record that lacks some of the current
\* fields it adds the defaults of exactly the missing fields, leaves the
\* other fields as they are and saves the record (and saves nothing when no
\* field is missing), so that a later command on the account completes.
Backfilled(rec) ==
    [f \in DOMAIN DefaultAccount |->
        IF f \in DOMAIN rec THEN rec[f] ELSE DefaultAccount[f]]
Incomplete(rec) == (DOMAIN DefaultAccount) \ (DOMAIN rec) # {}
C16_SchemaMigration ==
    [][\A t \in Tasks :
          LET u == task[t].user
          IN  (EnsureLoads(t) /\ u \in DOMAIN load_data) =>
                 IF Incomplete(load_data[u])
                 THEN /\ task'[t].pc = "save_open"
                      /\ task'[t].cont = "ensure"
                      /\ task'[t].edata[u] = Backfilled(load_data[u])
                 ELSE /\ task'[t].cont # "ensure"
                      /\ sent'.kind # "KeyError"]_vars

\* C17: get_cooldown_message fails open: no cooldown for the sentinel "0" and
\* for a timestamp that cannot be parsed or compared with the current UTC
\* time; for a parsable timestamp t a wait is reported exactly when
\* t + cooldown_hours is strictly later than now.
CooldownDone == call.fn = "get_cooldown_message" /\ call.done
CooldownEnds ==
    call.last_claimed_timestamp.secs + call.cooldown_hours * 3600
C17_CooldownFailsOpen ==
    CooldownDone =>
        /\ call.last_claimed_timestamp.kind \in {"zero", "garbage", "naive"}
              => ~call.out.wait
        /\ call.last_claimed_timestamp.kind = "aware" =>
              /\ call.out.wait <=> CooldownEnds > call.now_utc
              /\ call.now_utc >= CooldownEnds => call.out = NoMessage
              /\ call.out.wait =>
                    call.out.hours * 3600 + call.out.minutes * 60
                        + call.out.seconds = CooldownEnds - call.now_utc

\* asked at the very second the cooldown of a parsable timestamp ends: ready
C17_Witness ==
    /\ CooldownDone
    /\ call.last_claimed_timestamp.kind = "aware"
    /\ call.last_claimed_timestamp.secs > 0
    /\ call.now_utc = CooldownEnds
    /\ call.out = NoMessage

\* C19: the two timers are independent: no step of a daily command changes
\* the user's persisted checklist_last_claimed or whether checklist is
\* claimable (its cooldown bucket), no step of a checklist command changes
\* daily_last_claimed or whether daily is claimable, and neither changes a
\* win/loss counter or total_gambled.
OtherTimer(c) == IF c = "daily" THEN "checklist" ELSE "daily"
\* task t's command takes this step
StepOf(t) == task[t].pc # "idle" /\ task'[t] # task[t]
C19_TimersIndependent ==
    [][\A t \in Tasks :
          (StepOf(t) /\ task[t].cmd \in TimedCommands) =>
              LET u == task[t].user
                  other == OtherTimer(task[t].cmd)
              IN  /\ buckets'[other][u] = buckets[other][u]
                  /\ (u \in DOMAIN persisted /\ u \in DOMAIN persisted') =>
                        /\ Stamp(persisted'[u], other)
                              = Stamp(persisted[u], other)
                        /\ persisted'[u].total_gambled
                              = persisted[u].total_gambled
                        /\ \A c \in Counters :
                              persisted'[u][c] = persisted[u][c]]_vars

\* C20: cross-user frame: no step of a command invoked by user X changes the
\* persisted record of another user Y, in any interleaving with Y's
\* commands: a whole-store save by X never writes back an older version of
\* Y's record.  (That Y's record is not removed is C3.)
C20_CrossUserFrame ==
    [][\A t \in Tasks :
          StepOf(t) =>
              \A y \in ((DOMAIN persisted) \cap (DOMAIN persisted'))
                            \ {task[t].user} :
                  persisted'[y] = persisted[y]]_vars

\* C21: in every blackjack round the player's hand is exactly the two cards
\* dealt first and its score lies between 4 and 21, so the round never takes
\* the "Player Busts" branch, and whenever the player loses the dealer holds
\* a strictly higher total of at most 21.
PlayerScored == calculate_hand_value(call.out.round.player_hand)
C21_PlayerNeverBusts ==
    RoundDone =>
        /\ call.out.round.player_hand = PlayerDealt
        /\ PlayerScored.raised = "none"
        /\ PlayerScored.value \in 4..BlackjackTarget
        /\ call.out.round.result # "player_bust"
        /\ LossesBj = 1 =>
              /\ call.out.round.dealer_score > call.out.round.player_score
              /\ call.out.round.dealer_score <= BlackjackTarget
====
